---- MODULE Spec2Model ----
(***************************************************************************)
(* Model of the df9ry/ringbuffer library.                                   *)
(*                                                                          *)
(* The repository holds two implementations of the ring buffer:             *)
(*   - src/unnamed/part_000 (lines 1-426): the tail/used implementation     *)
(*     with rb_write_block, rb_write_nonblock, rb_read_block and            *)
(*     rb_read_nonblock;                                                    *)
(*   - src/ringbuffer.c: the head/tail implementation the self test         *)
(*     src/ringbuffer_test.c is built against.                              *)
(* The transfer operations are modelled from part_000; the lifecycle        *)
(* (rb_init / rb_destroy) is modelled from both files.                      *)
(*                                                                          *)
(* Bytes are modelled by labels: the k-th byte handed to a write call is    *)
(* the label k (1, 2, 3, ...), and the label 0 stands for a byte whose      *)
(* value is indeterminate (memory malloc returned and nobody wrote).        *)
(***************************************************************************)
EXTENDS Integers, Sequences, FiniteSets, TLC

\* ------------------------------------------------------------------ bounds
\* Largest capacity handed to rb_init.
MaxSize == 2
\* Largest number of bytes one transfer call asks for.
MaxReq == 2
\* Total number of bytes handed to write calls in one behaviour.
MaxBytes == 3
\* Total number of bytes asked for by read calls in one behaviour.
MaxReads == 3
\* Number of blocks a behaviour may lose by rb_init on a live handle.
MaxLeaks == 1
\* Largest total of lost bytes reported to rb_loose.
MaxLost == 3

\* --------------------------------------------------------------- constants
\* errno values returned by the operations.
EFAULT == 14
E2BIG == 7
ENOMEM == 12
EAGAIN == 11

NoThread == "none"
\* The threads: a writer and a reader, and a second writer and reader for
\* the specification of concurrent blocking calls.
Thr == {"w", "r", "w2", "r2"}

VARIABLES
    size,       \* _rb->size
    used,       \* _rb->used
    tail,       \* _rb->tail
    lost,       \* _rb->lost
    reported,   \* history: the amounts handed to rb_loose since lost was reset
    data,       \* _rb->data[0 .. size-1]
    overrun,    \* TRUE once a memcpy of _put stored a byte at an index >= size
    crashed,    \* TRUE once undefined behaviour ended the process
    spinlock,   \* owner of _rb->spinlock
    wr_mutex,   \* owner of _rb->wr_mutex
    rd_mutex,   \* owner of _rb->rd_mutex
    th,         \* per thread: the call in progress and its locals
    nb,         \* number of bytes handed to write calls so far
    nr,         \* number of bytes asked for by read calls so far
    accepted,   \* history: the bytes _put accepted since rb_init or rb_clear
    delivered,  \* history: the bytes _get handed out since rb_init or rb_clear
    entry,      \* history: used, tail and contents when the spinlock was taken
    rb,         \* the handle (rb->_rb) and the resources of part_000
    rbc         \* the handle (rb->_rb) and the resources of ringbuffer.c

vars == <<size, used, tail, lost, reported, data, overrun, crashed, spinlock,
          wr_mutex, rd_mutex, th, nb, nr, accepted, delivered, entry, rb, rbc>>

\* The variables of the buffer behind a live handle and of its callers.
xfer == <<size, used, tail, lost, reported, data, overrun, crashed, spinlock,
          wr_mutex, rd_mutex, th, nb, nr, accepted, delivered, entry>>

\* ----------------------------------------------------------------- helpers
Min(a, b) == IF a < b THEN a ELSE b

SubSeqFrom(s, k) == SubSeq(s, k + 1, Len(s))

\* The labels of a request of n bytes handed over after b earlier bytes.
Labels(b, n) == [i \in 1..n |-> b + i]

Idle == [pc |-> "idle", op |-> "none", n |-> 0, co |-> 0, buf |-> <<>>,
         cnt |-> 0, out |-> <<>>, ret |-> 0, waited |-> FALSE, u0 |-> 0,
         alone |-> TRUE]

NoEntry == [used |-> 0, tail |-> 0, ring |-> <<>>]

\* The unread bytes, oldest first, as the arena holds them.
Ring == [i \in 1..used |-> data[(tail + i - 1) % size]]

\* memcpy(&d[at], src, n): the bytes that land inside the arena.
Memcpy(d, at, src, n) ==
    [i \in DOMAIN d |-> IF i >= at /\ i < at + n THEN src[i - at + 1] ELSE d[i]]

\* memcpy(&d[at], src, n) stores past the end of the arena.
PastEnd(at, n) == n > 0 /\ at + n > size


\* ------------------------------------------------------------ _put / _get
\* _put without the cut of lines 81-82.
PutNoClamp(co, free) == co

\* _put, lines 81-82: co is cut to the free space.
PutClamp(co, free) == IF co > free THEN free ELSE co

\* _put(_rb, po, co) on a buffer of size > 0: the count it returns, the arena
\* after its memcpy, and whether the memcpy stored past the end of the arena.
_put(po, co) ==
    LET free_ == size - used
        head_ == (tail + used) % size
        c == PutClamp(co, free_)
        new_head == (head_ + c) % size
    IN  IF new_head <= size
        THEN [res |-> c, data |-> Memcpy(data, head_, po, c),
              past |-> PastEnd(head_, c)]
        ELSE LET i == size - head_
             IN  [res |-> c,
                  data |-> Memcpy(Memcpy(data, head_, po, i), 0,
                                  SubSeqFrom(po, i), new_head - size),
                  past |-> FALSE]

\* _get, lines 100-101: co is cut to the bytes held.
GetClamp(co) == IF co > used THEN used ELSE co

\* _get, line 104.
GetNewTail(co) == (tail + co) % size

\* _get without lines 107 and 111: tail stays where it is.
GetKeepsTail(co) ==
    LET c0 == GetClamp(co)
    IN  [res |-> c0, out |-> [i \in 1..c0 |-> data[(tail + i - 1) % size]],
         tail |-> tail]

\* _get(_rb, po, co): the count it returns, the bytes copied out, and the new
\* tail.
_get(co) ==
    LET c0 == GetClamp(co)
    IN  IF c0 = 0
        THEN [res |-> 0, out |-> <<>>, tail |-> tail]
        ELSE LET new_tail == GetNewTail(c0)
             IN  IF new_tail > tail
                 THEN [res |-> c0,
                       out |-> [i \in 1..c0 |-> data[tail + i - 1]],
                       tail |-> new_tail]
                 ELSE LET c1 == size - tail
                      IN  [res |-> c1,
                           out |-> [i \in 1..c1 |-> data[tail + i - 1]],
                           tail |-> 0]

\* ------------------------------------------------- threads and primitives
\* The handle of part_000 points to an initialized buffer.
Live == rb.hnd = "BLOCK"

\* A lock that excludes nobody.
LockAlwaysFree(m) == TRUE

\* pthread_mutex_lock / pthread_spin_lock return once the lock is free.
LockFree(m) == m = NoThread

\* Thread t has no call in progress.
CanCall(t) == th[t].pc = "idle"

\* Thread t is inside rb_read_block.
Reading(t) == th[t].op = "read_block" /\ th[t].pc # "ret"

\* th after thread t moved to record r; when the step changed used or tail,
\* an rb_read_block in progress in another thread is no longer undisturbed.
Others(t, r, changed) ==
    [u \in Thr |-> IF u = t THEN r
                   ELSE IF changed /\ Reading(u)
                        THEN [th[u] EXCEPT !.alone = FALSE]
                        ELSE th[u]]

\* _cond_signal(cond, lock): one thread blocked in pthread_cond_wait on the
\* condition (at waitpc) is released and goes on after its _cond_wait (at
\* wakepc); with no thread blocked the signal is forgotten. thx is th after
\* the signalling thread's own move.
CondSignal(thx, waitpc, wakepc) ==
    LET W == {u \in Thr : thx[u].pc = waitpc}
    IN  IF W = {}
        THEN th' = thx
        ELSE \E u \in W : th' = [thx EXCEPT ![u].pc = wakepc]

\* A call begins: the locals of the call.
Begin(t, o, n, bytes) ==
    [Idle EXCEPT !.op = o, !.n = n, !.co = n, !.buf = bytes]

\* po of a write call: the caller's buffer, advanced by the bytes written so
\* far (po += res and written += res go together, lines 202-204 and 232-234).
Po(t) == SubSeqFrom(th[t].buf, th[t].cnt)

\* The call returns v.
Ret(r, v) == [r EXCEPT !.pc = "ret", !.ret = v]

\* ---------------------------------------------------------- rb_write_block
\* Lines 188-195: the handle check, the empty request, then wr_mutex.
wb_call(t, n) ==
    /\ ~crashed /\ CanCall(t)
    /\ LET r == [Begin(t, "write_block", n, Labels(nb, n)) EXCEPT !.u0 = used]
       IN  th' = [th EXCEPT ![t] =
                    IF ~Live THEN Ret(r, -EFAULT)
                    ELSE IF n = 0 THEN Ret(r, 0)
                    ELSE [r EXCEPT !.pc = "wb_lock"]]
    /\ nb' = nb + n
    /\ UNCHANGED <<size, used, tail, lost, reported, data, overrun, crashed,
                   spinlock, wr_mutex, rd_mutex, nr, accepted, delivered,
                   entry, rb, rbc>>

\* Line 194: pthread_mutex_lock(&_rb->wr_mutex).
wb_lock(t) ==
    /\ ~crashed /\ th[t].pc = "wb_lock"
    /\ LockFree(wr_mutex)
    /\ wr_mutex' = t
    /\ th' = [th EXCEPT ![t].pc = "wb_put"]
    /\ UNCHANGED <<size, used, tail, lost, reported, data, overrun, crashed,
                   spinlock, rd_mutex, nb, nr, accepted, delivered, entry, rb,
                   rbc>>

\* Where rb_write_block goes after _put returned res with co bytes left
\* (lines 205-209).
WbAfterPut(res, co) ==
    IF res > 0 THEN "wb_signal" ELSE IF co > 0 THEN "wb_wait" ELSE "wb_unlock"

\* Lines 197-204: _put under the spinlock. With size = 0 the modulo of _put
\* divides by zero: the process traps, or the division yields 0 and _put
\* copies nothing.
wb_put(t) ==
    /\ ~crashed /\ th[t].pc = "wb_put"
    /\ LockFree(spinlock)
    /\ IF size = 0
       THEN /\ \E trap \in BOOLEAN :
                 /\ crashed' = trap
                 /\ th' = [th EXCEPT ![t].pc =
                             IF trap THEN "wb_put" ELSE WbAfterPut(0, th[t].co)]
            /\ UNCHANGED <<data, used, accepted, overrun>>
       ELSE LET p == _put(Po(t), th[t].co)
                r == [th[t] EXCEPT !.co = @ - p.res,
                                   !.cnt = @ + p.res,
                                   !.pc = WbAfterPut(p.res, th[t].co - p.res)]
            IN  /\ data' = p.data
                /\ used' = used + p.res
                /\ accepted' = accepted \o SubSeq(Po(t), 1, p.res)
                /\ overrun' = (overrun \/ p.past)
                /\ crashed' \in (IF p.past THEN BOOLEAN ELSE {FALSE})
                /\ th' = Others(t, r, p.res > 0)
    /\ UNCHANGED <<size, tail, lost, reported, spinlock, wr_mutex, rd_mutex,
                   nb, nr, delivered, entry, rb, rbc>>

\* Line 206: _cond_signal(&_rb->wr_cond, &_rb->wr_cond_lock).
wb_signal(t) ==
    /\ ~crashed /\ th[t].pc = "wb_signal"
    /\ CondSignal([th EXCEPT ![t].pc =
                     IF th[t].co > 0 THEN "wb_wait" ELSE "wb_unlock"],
                  "rb_waiting", "rb_get")
    /\ UNCHANGED <<size, used, tail, lost, reported, data, overrun, crashed,
                   spinlock, wr_mutex, rd_mutex, nb, nr, accepted, delivered,
                   entry, rb, rbc>>

\* Line 208: _cond_wait(&_rb->rd_cond, &_rb->rd_cond_lock): the thread blocks.
wb_wait(t) ==
    /\ ~crashed /\ th[t].pc = "wb_wait"
    /\ th' = [th EXCEPT ![t].pc = "wb_waiting"]
    /\ UNCHANGED <<size, used, tail, lost, reported, data, overrun, crashed,
                   spinlock, wr_mutex, rd_mutex, nb, nr, accepted, delivered,
                   entry, rb, rbc>>

\* Lines 210-212: pthread_mutex_unlock(&_rb->wr_mutex); return written.
wb_unlock(t) ==
    /\ ~crashed /\ th[t].pc = "wb_unlock"
    /\ wr_mutex' = NoThread
    /\ th' = [th EXCEPT ![t] = Ret(@, @.cnt)]
    /\ UNCHANGED <<size, used, tail, lost, reported, data, overrun, crashed,
                   spinlock, rd_mutex, nb, nr, accepted, delivered, entry, rb,
                   rbc>>

\* ----------------------------------------------------------- rb_read_block
\* Lines 251-256: the handle check, then rd_mutex.
rb_call(t, n) ==
    /\ ~crashed /\ CanCall(t)
    /\ LET r == [Begin(t, "read_block", n, <<>>) EXCEPT !.u0 = used]
       IN  th' = [th EXCEPT ![t] =
                    IF ~Live THEN Ret(r, -EFAULT)
                    ELSE [r EXCEPT !.pc = "rb_lock"]]
    /\ nr' = nr + n
    /\ UNCHANGED <<size, used, tail, lost, reported, data, overrun, crashed,
                   spinlock, wr_mutex, rd_mutex, nb, accepted, delivered,
                   entry, rb, rbc>>

\* Line 255: pthread_mutex_lock(&_rb->rd_mutex); line 257: the loop test.
rb_lock(t) ==
    /\ ~crashed /\ th[t].pc = "rb_lock"
    /\ LockFree(rd_mutex)
    /\ rd_mutex' = t
    /\ th' = [th EXCEPT ![t].pc = IF th[t].co > 0 THEN "rb_get" ELSE "rb_unlock"]
    /\ UNCHANGED <<size, used, tail, lost, reported, data, overrun, crashed,
                   spinlock, wr_mutex, nb, nr, accepted, delivered, entry, rb,
                   rbc>>

\* rb_read_block waiting for data whenever _get returned nothing, whether or
\* not bytes were delivered before.
RbWaitsAgain(res, got, co) ==
    IF res = 0
    THEN "rb_wait"
    ELSE IF co - res > 0 THEN "rb_get" ELSE "rb_unlock"

\* Where rb_read_block goes after _get returned res, with got bytes delivered
\* before and co bytes asked for before (lines 263-274 and the loop test).
RbAfterGet(res, got, co) ==
    IF res = 0
    THEN IF got = 0 THEN "rb_wait" ELSE "rb_unlock"
    ELSE IF co - res > 0 THEN "rb_get" ELSE "rb_unlock"

\* Lines 258-273: _get under the spinlock.
rb_get(t) ==
    /\ ~crashed /\ th[t].pc = "rb_get"
    /\ LockFree(spinlock)
    /\ LET g == _get(th[t].co)
           r == [th[t] EXCEPT !.co = @ - g.res,
                              !.cnt = @ + g.res,
                              !.out = @ \o g.out,
                              !.pc = RbAfterGet(g.res, th[t].cnt, th[t].co)]
       IN  /\ tail' = g.tail
           /\ used' = used - g.res
           /\ delivered' = delivered \o g.out
           /\ th' = Others(t, r, g.res > 0)
    /\ UNCHANGED <<size, lost, reported, data, overrun, crashed, spinlock,
                   wr_mutex, rd_mutex, nb, nr, accepted, entry, rb, rbc>>

\* Line 265: _cond_wait(&_rb->wr_cond, &_rb->wr_cond_lock): the thread blocks.
rb_wait(t) ==
    /\ ~crashed /\ th[t].pc = "rb_wait"
    /\ th' = [th EXCEPT ![t].pc = "rb_waiting", ![t].waited = TRUE]
    /\ UNCHANGED <<size, used, tail, lost, reported, data, overrun, crashed,
                   spinlock, wr_mutex, rd_mutex, nb, nr, accepted, delivered,
                   entry, rb, rbc>>

\* Line 275: pthread_mutex_unlock(&_rb->rd_mutex).
rb_unlock(t) ==
    /\ ~crashed /\ th[t].pc = "rb_unlock"
    /\ rd_mutex' = NoThread
    /\ th' = [th EXCEPT ![t].pc = "rb_signal"]
    /\ UNCHANGED <<size, used, tail, lost, reported, data, overrun, crashed,
                   spinlock, wr_mutex, nb, nr, accepted, delivered, entry, rb,
                   rbc>>

\* Lines 277-278: _cond_signal(&_rb->rd_cond, &_rb->rd_cond_lock); return got.
rb_signal(t) ==
    /\ ~crashed /\ th[t].pc = "rb_signal"
    /\ CondSignal([th EXCEPT ![t] = Ret(@, @.cnt)], "wb_waiting", "wb_put")
    /\ UNCHANGED <<size, used, tail, lost, reported, data, overrun, crashed,
                   spinlock, wr_mutex, rd_mutex, nb, nr, accepted, delivered,
                   entry, rb, rbc>>

\* pthread_cond_wait may return without a signal (a spurious wakeup): the
\* thread goes on after its _cond_wait.
SpuriousWakeup(t) ==
    /\ ~crashed /\ th[t].pc \in {"wb_waiting", "rb_waiting"}
    /\ th' = [th EXCEPT ![t].pc = IF @ = "wb_waiting" THEN "wb_put" ELSE "rb_get"]
    /\ UNCHANGED <<size, used, tail, lost, reported, data, overrun, crashed,
                   spinlock, wr_mutex, rd_mutex, nb, nr, accepted, delivered,
                   entry, rb, rbc>>

\* The caller has the result: the thread is free for its next call.
Return(t) ==
    /\ ~crashed /\ th[t].pc = "ret"
    /\ th' = [th EXCEPT ![t] = Idle]
    /\ UNCHANGED <<size, used, tail, lost, reported, data, overrun, crashed,
                   spinlock, wr_mutex, rd_mutex, nb, nr, accepted, delivered,
                   entry, rb, rbc>>

\* ------------------------------------------------------- rb_write_nonblock
\* Line 225: the request can never fit.
TooBig(co) == co > size

\* Lines 221-226: the handle check and the size check.
wn_call(t, n) ==
    /\ ~crashed /\ CanCall(t)
    /\ LET r == Begin(t, "write_nonblock", n, Labels(nb, n))
       IN  th' = [th EXCEPT ![t] =
                    IF ~Live THEN Ret(r, -EFAULT)
                    ELSE IF TooBig(n) THEN Ret(r, -E2BIG)
                    ELSE [r EXCEPT !.pc = "wn_spin"]]
    /\ nb' = nb + n
    /\ UNCHANGED <<size, used, tail, lost, reported, data, overrun, crashed,
                   spinlock, wr_mutex, rd_mutex, nr, accepted, delivered,
                   entry, rb, rbc>>

\* Line 229: the request fits into the free space (_free, lines 65-68).
Fits(co) == co <= size - used

\* Lines 227-230 and 238-243: the spinlock is taken and the free space
\* tested; without room, or with nothing to write, it is released at once.
wn_spin(t) ==
    /\ ~crashed /\ th[t].pc = "wn_spin"
    /\ LockFree(spinlock)
    /\ IF Fits(th[t].co) /\ th[t].co > 0
       THEN /\ spinlock' = t
            /\ entry' = [used |-> used, tail |-> tail, ring |-> Ring]
            /\ th' = [th EXCEPT ![t].pc = "wn_put"]
       ELSE /\ th' = [th EXCEPT ![t] =
                        Ret(@, IF Fits(th[t].co) THEN 0 ELSE -ENOMEM)]
            /\ UNCHANGED <<spinlock, entry>>
    /\ UNCHANGED <<size, used, tail, lost, reported, data, overrun, crashed,
                   wr_mutex, rd_mutex, nb, nr, accepted, delivered, rb, rbc>>

\* Lines 231-234: _put, the spinlock held.
wn_put(t) ==
    /\ ~crashed /\ th[t].pc = "wn_put"
    /\ LET p == _put(Po(t), th[t].co)
           r == [th[t] EXCEPT !.co = @ - p.res,
                              !.cnt = @ + p.res,
                              !.pc = "wn_signal"]
       IN  /\ data' = p.data
           /\ used' = used + p.res
           /\ accepted' = accepted \o SubSeq(Po(t), 1, p.res)
           /\ overrun' = (overrun \/ p.past)
           /\ crashed' \in (IF p.past THEN BOOLEAN ELSE {FALSE})
           /\ th' = Others(t, r, p.res > 0)
    /\ UNCHANGED <<size, tail, lost, reported, spinlock, wr_mutex, rd_mutex,
                   nb, nr, delivered, entry, rb, rbc>>

\* Line 235: _cond_signal(&_rb->wr_cond, &_rb->wr_cond_lock), the spinlock
\* held; then the loop test, and lines 237-243 when the loop ends.
wn_signal(t) ==
    /\ ~crashed /\ th[t].pc = "wn_signal"
    /\ IF th[t].co > 0
       THEN /\ CondSignal([th EXCEPT ![t].pc = "wn_put"], "rb_waiting", "rb_get")
            /\ UNCHANGED <<spinlock, entry>>
       ELSE /\ CondSignal([th EXCEPT ![t] = Ret(@, @.cnt)], "rb_waiting", "rb_get")
            /\ spinlock' = NoThread
            /\ entry' = NoEntry
    /\ UNCHANGED <<size, used, tail, lost, reported, data, overrun, crashed,
                   wr_mutex, rd_mutex, nb, nr, accepted, delivered, rb, rbc>>

\* -------------------------------------------------------- rb_read_nonblock
\* Lines 287-292: the handle check and the size check.
rn_call(t, n) ==
    /\ ~crashed /\ CanCall(t)
    /\ LET r == Begin(t, "read_nonblock", n, <<>>)
       IN  th' = [th EXCEPT ![t] =
                    IF ~Live THEN Ret(r, -EFAULT)
                    ELSE IF TooBig(n) THEN Ret(r, -E2BIG)
                    ELSE [r EXCEPT !.pc = "rn_spin"]]
    /\ nr' = nr + n
    /\ UNCHANGED <<size, used, tail, lost, reported, data, overrun, crashed,
                   spinlock, wr_mutex, rd_mutex, nb, accepted, delivered,
                   entry, rb, rbc>>

\* rb_read_nonblock without the test of line 295.
HoldsAlways(co) == TRUE

\* Line 295: the buffer holds the bytes asked for (_used, lines 70-73).
Holds(co) == co <= used

\* Lines 293-296 and 304-309: the spinlock is taken and the bytes held
\* tested; without enough bytes, or with nothing to read, it is released at
\* once.
rn_spin(t) ==
    /\ ~crashed /\ th[t].pc = "rn_spin"
    /\ LockFree(spinlock)
    /\ IF Holds(th[t].co) /\ th[t].co > 0
       THEN /\ spinlock' = t
            /\ entry' = [used |-> used, tail |-> tail, ring |-> Ring]
            /\ th' = [th EXCEPT ![t].pc = "rn_get"]
       ELSE /\ th' = [th EXCEPT ![t] =
                        Ret(@, IF Holds(th[t].co) THEN 0 ELSE -EAGAIN)]
            /\ UNCHANGED <<spinlock, entry>>
    /\ UNCHANGED <<size, used, tail, lost, reported, data, overrun, crashed,
                   wr_mutex, rd_mutex, nb, nr, accepted, delivered, rb, rbc>>

\* Lines 297-300: _get, the spinlock held.
rn_get(t) ==
    /\ ~crashed /\ th[t].pc = "rn_get"
    /\ LET g == _get(th[t].co)
           r == [th[t] EXCEPT !.co = @ - g.res,
                              !.cnt = @ + g.res,
                              !.out = @ \o g.out,
                              !.pc = "rn_signal"]
       IN  /\ tail' = g.tail
           /\ used' = used - g.res
           /\ delivered' = delivered \o g.out
           /\ th' = Others(t, r, g.res > 0)
    /\ UNCHANGED <<size, lost, reported, data, overrun, crashed, spinlock,
                   wr_mutex, rd_mutex, nb, nr, accepted, entry, rb, rbc>>

\* Line 301: _cond_signal(&_rb->rd_cond, &_rb->rd_cond_lock), the spinlock
\* held; then the loop test, and lines 303-309 when the loop ends.
rn_signal(t) ==
    /\ ~crashed /\ th[t].pc = "rn_signal"
    /\ IF th[t].co > 0
       THEN /\ CondSignal([th EXCEPT ![t].pc = "rn_get"], "wb_waiting", "wb_put")
            /\ UNCHANGED <<spinlock, entry>>
       ELSE /\ CondSignal([th EXCEPT ![t] = Ret(@, @.cnt)], "wb_waiting", "wb_put")
            /\ spinlock' = NoThread
            /\ entry' = NoEntry
    /\ UNCHANGED <<size, used, tail, lost, reported, data, overrun, crashed,
                   wr_mutex, rd_mutex, nb, nr, accepted, delivered, rb, rbc>>

\* ---------------------------------------------------------------- rb_clear
\* Lines 317-324: used, tail and lost are reset under the spinlock.
rb_clear ==
    /\ ~crashed /\ Live
    /\ LockFree(spinlock)
    /\ used' = 0 /\ tail' = 0 /\ lost' = 0 /\ reported' = 0
    /\ accepted' = <<>> /\ delivered' = <<>>
    /\ th' = [u \in Thr |-> IF Reading(u)
                            THEN [th[u] EXCEPT !.alone = FALSE] ELSE th[u]]
    /\ UNCHANGED <<size, data, overrun, crashed, spinlock, wr_mutex, rd_mutex,
                   nb, nr, entry, rb, rbc>>

\* ---------------------------------------------------- the condition locks
\* Thread t enters _cond_signal or _cond_wait in this step: it locks
\* wr_cond_lock or rd_cond_lock (lines 45 and 57).
TakesCondLock(t) ==
    /\ th[t].pc \in {"wb_signal", "wb_wait", "rb_wait", "rb_signal",
                     "wn_signal", "rn_signal"}
    /\ th'[t].pc # th[t].pc

\* ------------------------------------------------------------ the queries
\* _used, lines 70-73, and _free, lines 65-68.
_used == used

\* A free space that ignores the capacity.
FreeWithoutSize == 0 - used

_free == size - used

\* rb_get_used, lines 337-352, and rb_get_free, lines 354-369: the value read
\* under the spinlock.
rb_get_used == _used

rb_get_free == _free

\* ------------------------------------------------------- the lost counter
\* rb_loose that does not keep the new total.
LooseNotKept(l, n) == l

\* Line 421: _rb->lost += loose.
Loose(l, n) == l + n

\* A call of thread t that begins and ends in this step, with result v.
Done(t, o, n, v) == [th EXCEPT ![t] = Ret(Begin(t, o, n, <<>>), v)]

\* rb_loose, lines 408-426: EFAULT without a buffer; else lost is raised
\* under the spinlock and the new total returned.
rb_loose(t, n) ==
    /\ ~crashed /\ CanCall(t)
    /\ IF ~Live
       THEN /\ th' = Done(t, "loose", n, EFAULT)
            /\ UNCHANGED <<lost, reported>>
       ELSE /\ LockFree(spinlock)
            /\ lost' = Loose(lost, n)
            /\ reported' = reported + n
            /\ th' = Done(t, "loose", n, lost')
    /\ UNCHANGED <<size, used, tail, data, overrun, crashed, spinlock,
                   wr_mutex, rd_mutex, nb, nr, accepted, delivered, entry,
                   rb, rbc>>

\* rb_get_lost, lines 371-387: EFAULT without a buffer; else lost as read
\* under the spinlock.
rb_get_lost(t) ==
    /\ ~crashed /\ CanCall(t)
    /\ IF ~Live
       THEN th' = Done(t, "get_lost", 0, EFAULT)
       ELSE /\ LockFree(spinlock)
            /\ th' = Done(t, "get_lost", 0, lost)
    /\ UNCHANGED <<size, used, tail, lost, reported, data, overrun, crashed,
                   spinlock, wr_mutex, rd_mutex, nb, nr, accepted, delivered,
                   entry, rb, rbc>>

\* rb_clear_lost that resets the whole buffer, as rb_clear does.
rb_clear_lost_all(t) ==
    /\ ~crashed /\ CanCall(t) /\ Live
    /\ LockFree(spinlock)
    /\ th' = Done(t, "clear_lost", 0, lost)
    /\ lost' = 0 /\ reported' = 0 /\ used' = 0 /\ tail' = 0
    /\ UNCHANGED <<size, data, overrun, crashed, spinlock, wr_mutex,
                   rd_mutex, nb, nr, accepted, delivered, entry, rb, rbc>>

\* rb_clear_lost, lines 389-406: EFAULT without a buffer; else lost is read
\* and reset under the spinlock.
rb_clear_lost(t) ==
    /\ ~crashed /\ CanCall(t)
    /\ IF ~Live
       THEN /\ th' = Done(t, "clear_lost", 0, EFAULT)
            /\ UNCHANGED <<lost, reported>>
       ELSE /\ LockFree(spinlock)
            /\ th' = Done(t, "clear_lost", 0, lost)
            /\ lost' = 0 /\ reported' = 0
    /\ UNCHANGED <<size, used, tail, data, overrun, crashed, spinlock,
                   wr_mutex, rd_mutex, nb, nr, accepted, delivered, entry,
                   rb, rbc>>

\* --------------------------------------------------------------- lifecycle
\* The seven synchronization primitives of struct _ringbuffer, in the order
\* rb_init initializes them: spinlock, rd_mutex, rd_cond_lock, rd_cond,
\* wr_mutex, wr_cond_lock, wr_cond.
NPrim == 7

\* A handle nobody initialized yet, zeroed: no block, no primitive. hnd is
\* rb->_rb: "NULL", "BLOCK" (the block the last malloc returned) or "WILD" (an
\* indeterminate value, as in the handle on the stack of the self test,
\* ringbuffer_test.c line 25). mem and prim are the state of the block and of
\* its primitives; op, fail, was and ret record the last lifecycle call: the
\* operation, the step made to fail, rb->_rb before the call, and the result.
Fresh == [hnd |-> "NULL", mem |-> "none", prim |-> [k \in 1..NPrim |-> "none"],
          set |-> FALSE, leaks |-> 0, ub |-> FALSE, op |-> "none",
          fail |-> 0, was |-> "NULL", ret |-> 0]

\* The handle after a successful rb_init.
Made == [Fresh EXCEPT !.hnd = "BLOCK", !.mem = "alloc",
                      !.prim = [k \in 1..NPrim |-> "init"], !.set = TRUE,
                      !.op = "init"]

\* The zeroed handle of ringbuffer.c, with the lost counter of its block
\* (_rb->lost) and the argument of the last call.
FreshC == Fresh @@ [lost |-> 0, arg |-> 0]

\* What makes an rb_init fail: nothing (0), malloc (1), or the initialization
\* of the primitive k (k + 1).
Fails == 0..(NPrim + 1)

\* The primitives after the undo labels of rb_init ran for a failure at the
\* primitive j: the ones initialized before j are destroyed again.
Undone(j) == [k \in 1..NPrim |-> IF k < j THEN "destroyed" ELSE "none"]

\* pthread_*_destroy on every primitive and free of the block are defined
\* only for an allocated block whose primitives are all initialized.
Destroyable(h) ==
    /\ h.hnd = "BLOCK" /\ h.mem = "alloc"
    /\ \A k \in 1..NPrim : h.prim[k] = "init"

\* rb_init of part_000, lines 117-164. The handle is overwritten with the
\* result of malloc whatever it held: a live block is then lost. On a failing
\* primitive the undo labels destroy the primitives made so far and return,
\* with the block still allocated and the handle still pointing to it.
rb_init(sz, fail) ==
    /\ ~crashed
    /\ \A t \in Thr : th[t].pc = "idle"
    /\ LET lose == IF rb.hnd = "BLOCK" /\ rb.mem = "alloc" THEN 1 ELSE 0
           base == [Fresh EXCEPT !.leaks = rb.leaks + lose, !.ub = rb.ub,
                                 !.op = "init", !.fail = fail, !.was = rb.hnd]
       IN  /\ rb.leaks + lose <= MaxLeaks
           /\ IF fail = 1
              THEN /\ rb' = [base EXCEPT !.ret = ENOMEM]
                   /\ UNCHANGED <<size, used, tail, lost, reported, data>>
              ELSE IF fail > 1
              THEN /\ \E erc \in {EAGAIN, ENOMEM} :
                        rb' = [base EXCEPT !.hnd = "BLOCK", !.mem = "alloc",
                                           !.prim = Undone(fail - 1),
                                           !.ret = erc]
                   /\ UNCHANGED <<size, used, tail, lost, reported, data>>
              ELSE /\ rb' = [base EXCEPT !.hnd = "BLOCK", !.mem = "alloc",
                                         !.prim = [k \in 1..NPrim |-> "init"],
                                         !.set = TRUE, !.ret = 0]
                   /\ size' = sz /\ used' = 0 /\ tail' = 0 /\ lost' = 0
                   /\ reported' = 0
                   /\ data' = [i \in 0..(sz - 1) |-> 0]
    /\ UNCHANGED <<overrun, crashed, spinlock, wr_mutex, rd_mutex, th, nb, nr,
                   accepted, delivered, entry, rbc>>

\* rb_destroy of part_000, lines 166-181. On anything but a block with
\* initialized primitives the destroy calls and free are undefined: the
\* process may end there.
rb_destroy ==
    /\ ~crashed
    /\ \A t \in Thr : th[t].pc = "idle"
    /\ IF rb.hnd = "NULL"
       THEN /\ rb' = [rb EXCEPT !.op = "destroy", !.fail = 0, !.was = rb.hnd,
                                !.ret = EFAULT]
            /\ UNCHANGED crashed
       ELSE /\ rb' = [rb EXCEPT !.op = "destroy", !.fail = 0, !.was = rb.hnd,
                                !.ret = 0, !.hnd = "NULL", !.mem = "freed",
                                !.prim = [k \in 1..NPrim |-> "destroyed"],
                                !.set = FALSE,
                                !.ub = (rb.ub \/ ~Destroyable(rb))]
            /\ crashed' \in (IF Destroyable(rb) THEN {FALSE} ELSE BOOLEAN)
    /\ UNCHANGED <<size, used, tail, lost, reported, data, overrun, spinlock,
                   wr_mutex, rd_mutex, th, nb, nr, accepted, delivered, entry,
                   rbc>>

\* rb_init of ringbuffer.c, lines 107-159: refused on a handle that is not
\* NULL; on a failure the primitives made so far are destroyed, the block is
\* freed and the handle is NULL again.
ringbuffer_c_rb_init(sz, fail) ==
    /\ ~crashed
    /\ LET base == [rbc EXCEPT !.op = "init", !.fail = fail, !.was = rbc.hnd,
                               !.arg = 0]
       IN  IF rbc.hnd # "NULL"
           THEN rbc' = [base EXCEPT !.ret = EFAULT]
           ELSE IF fail = 1
           THEN rbc' = [base EXCEPT !.ret = ENOMEM]
           ELSE IF fail > 1
           THEN \E erc \in {EAGAIN, ENOMEM} :
                    rbc' = [base EXCEPT !.mem = "freed",
                                        !.prim = Undone(fail - 1),
                                        !.set = FALSE, !.ret = erc]
           ELSE rbc' = [base EXCEPT !.hnd = "BLOCK", !.mem = "alloc",
                                    !.prim = [k \in 1..NPrim |-> "init"],
                                    !.set = TRUE, !.lost = 0, !.ret = 0]
    /\ UNCHANGED <<xfer, rb>>

\* The test of rb_destroy in ringbuffer.c, line 167: the call is refused
\* when rb->_rb is set.
DestroyRefused(h) == h # "NULL"

\* rb_destroy of ringbuffer.c, lines 161-179. With rb->_rb NULL the destroy
\* calls go through a null pointer, which is undefined: the process may end
\* there, or go on to free(NULL) and return 0.
ringbuffer_c_rb_destroy ==
    /\ ~crashed
    /\ LET base == [rbc EXCEPT !.op = "destroy", !.fail = 0, !.was = rbc.hnd,
                               !.arg = 0]
       IN  IF DestroyRefused(rbc.hnd)
           THEN /\ rbc' = [base EXCEPT !.ret = EFAULT]
                /\ UNCHANGED crashed
           ELSE /\ rbc' = [base EXCEPT !.ret = 0, !.hnd = "NULL", !.ub = TRUE]
                /\ crashed' \in BOOLEAN
    /\ UNCHANGED <<size, used, tail, lost, reported, data, overrun, spinlock,
                   wr_mutex, rd_mutex, th, nb, nr, accepted, delivered, entry,
                   rb>>

\* rb_loose_data of ringbuffer.c, lines 348-361: EFAULT without a block; else
\* line 358 computes _rb->lost + loose into the local lost, which is
\* returned; _rb->lost is not assigned.
ringbuffer_c_rb_loose_data(n) ==
    /\ ~crashed /\ rbc.hnd # "WILD"
    /\ LET base == [rbc EXCEPT !.op = "loose_data", !.fail = 0,
                               !.was = rbc.hnd, !.arg = n]
       IN  rbc' = [base EXCEPT !.ret = IF rbc.hnd = "NULL" THEN EFAULT
                                       ELSE rbc.lost + n]
    /\ UNCHANGED <<xfer, rb>>

\* rb_get_lost of ringbuffer.c, lines 317-330.
ringbuffer_c_rb_get_lost ==
    /\ ~crashed /\ rbc.hnd # "WILD"
    /\ LET base == [rbc EXCEPT !.op = "get_lost", !.fail = 0,
                               !.was = rbc.hnd, !.arg = 0]
       IN  rbc' = [base EXCEPT !.ret = IF rbc.hnd = "NULL" THEN EFAULT
                                       ELSE rbc.lost]
    /\ UNCHANGED <<xfer, rb>>

\* -------------------------------------------------------- the specifications
InitBuf(sizes) ==
    /\ size \in sizes
    /\ used = 0 /\ tail = 0 /\ lost = 0 /\ reported = 0
    /\ data = [i \in 0..(size - 1) |-> 0]
    /\ overrun = FALSE /\ crashed = FALSE
    /\ spinlock = NoThread /\ wr_mutex = NoThread /\ rd_mutex = NoThread
    /\ th = [t \in Thr |-> Idle]
    /\ nb = 0 /\ nr = 0
    /\ accepted = <<>> /\ delivered = <<>>
    /\ entry = NoEntry

\* The state after a successful rb_init of the given capacity.
InitXfer(sizes) == InitBuf(sizes) /\ rb = Made /\ rbc = FreshC

\* One writer thread and one reader thread on a buffer rb_init made, each
\* with any mix of its blocking and non-blocking calls.
Init == InitXfer(0..MaxSize)

Next ==
    \/ \E n \in 0..MaxReq : nb + n <= MaxBytes /\ wb_call("w", n)
    \/ wb_lock("w")
    \/ wb_put("w")
    \/ wb_signal("w")
    \/ wb_wait("w")
    \/ wb_unlock("w")
    \/ \E n \in 0..MaxReq : nb + n <= MaxBytes /\ wn_call("w", n)
    \/ wn_spin("w")
    \/ wn_put("w")
    \/ wn_signal("w")
    \/ \E n \in 0..MaxReq : nr + n <= MaxReads /\ rb_call("r", n)
    \/ rb_lock("r")
    \/ rb_get("r")
    \/ rb_wait("r")
    \/ rb_unlock("r")
    \/ rb_signal("r")
    \/ \E n \in 0..MaxReq : nr + n <= MaxReads /\ rn_call("r", n)
    \/ rn_spin("r")
    \/ rn_get("r")
    \/ rn_signal("r")
    \/ \E t \in {"w", "r"} : SpuriousWakeup(t)
    \/ \E t \in {"w", "r"} : Return(t)

Spec == Init /\ [][Next]_vars

\* The same threads, and rb_clear at any moment.
NextAll ==
    \/ Next
    \/ rb_clear

SpecAll == Init /\ [][NextAll]_vars

\* Threads that each make one blocking call: two in rb_write_block and one in
\* rb_read_block, or one in rb_write_block and two in rb_read_block (of the
\* second writer w2 and the second reader r2 only one runs in a behaviour).
Writers == {"w", "w2"}
Readers == {"r", "r2"}

NextSer ==
    \/ \E t \in Writers, n \in 1..MaxReq :
          /\ nb + n <= MaxBytes
          /\ (t = "w2") => (th["r2"].pc = "idle")
          /\ wb_call(t, n)
    \/ \E t \in Writers : wb_lock(t)
    \/ \E t \in Writers : wb_put(t)
    \/ \E t \in Writers : wb_signal(t)
    \/ \E t \in Writers : wb_wait(t)
    \/ \E t \in Writers : wb_unlock(t)
    \/ \E t \in Readers, n \in 1..MaxReq :
          /\ nr + n <= MaxReads
          /\ (t = "r2") => (th["w2"].pc = "idle")
          /\ rb_call(t, n)
    \/ \E t \in Readers : rb_lock(t)
    \/ \E t \in Readers : rb_get(t)
    \/ \E t \in Readers : rb_wait(t)
    \/ \E t \in Readers : rb_unlock(t)
    \/ \E t \in Readers : rb_signal(t)
    \/ \E t \in Thr : SpuriousWakeup(t)

SpecSer == InitXfer(1..MaxSize) /\ [][NextSer]_vars

\* A single-threaded program: one call at a time. The program drops the
\* result of a call before its next call, except that it may keep the result
\* of a write across the one read that follows it: the write side moves only
\* while no read result is kept, and a read result is dropped only after the
\* write result.
WSteps(t) ==
    \/ \E n \in 0..MaxReq : nb + n <= MaxBytes /\ wb_call(t, n)
    \/ wb_lock(t)
    \/ wb_put(t)
    \/ wb_signal(t)
    \/ wb_wait(t)
    \/ wb_unlock(t)
    \/ \E n \in 0..MaxReq : nb + n <= MaxBytes /\ wn_call(t, n)
    \/ wn_spin(t)
    \/ wn_put(t)
    \/ wn_signal(t)

RSteps(t) ==
    \/ \E n \in 0..MaxReq : nr + n <= MaxReads /\ rb_call(t, n)
    \/ rb_lock(t)
    \/ rb_get(t)
    \/ rb_wait(t)
    \/ rb_unlock(t)
    \/ rb_signal(t)
    \/ \E n \in 0..MaxReq : nr + n <= MaxReads /\ rn_call(t, n)
    \/ rn_spin(t)
    \/ rn_get(t)
    \/ rn_signal(t)

NextSeq ==
    \/ th["r"].pc = "idle" /\ WSteps("w")
    \/ th["w"].pc \in {"idle", "ret"} /\ RSteps("r")
    \/ th["r"].pc \in {"idle", "ret"} /\ Return("w")
    \/ th["w"].pc = "idle" /\ Return("r")
    \/ \E t \in {"w", "r"} : SpuriousWakeup(t)

SpecSeq == Init /\ [][NextSeq]_vars

\* One thread in a single rb_write_block of more bytes than the buffer holds,
\* and one thread calling rb_read_block again and again until it has all the
\* bytes. Every thread that can take a step eventually takes one; a spurious
\* wakeup may happen and need not.
WriterOnce ==
    \/ \E n \in 1..MaxBytes : nb = 0 /\ n > size /\ wb_call("w", n)
    \/ wb_lock("w")
    \/ wb_put("w")
    \/ wb_signal("w")
    \/ wb_wait("w")
    \/ wb_unlock("w")

ReaderLoop ==
    \/ \E n \in 1..MaxReq : (nb = 0 \/ Len(delivered) < nb) /\ rb_call("r", n)
    \/ rb_lock("r")
    \/ rb_get("r")
    \/ rb_wait("r")
    \/ rb_unlock("r")
    \/ rb_signal("r")
    \/ Return("r")

NextDrain ==
    \/ WriterOnce
    \/ ReaderLoop
    \/ \E t \in {"w", "r"} : SpuriousWakeup(t)

FairSpec ==
    /\ InitXfer(1..MaxSize)
    /\ [][NextDrain]_vars
    /\ WF_vars(WriterOnce)
    /\ WF_vars(ReaderLoop)

\* The lifecycle of both implementations, each on its own handle; a handle
\* starts zeroed or, as the handle of the self test, with whatever the stack
\* held.
InitLife ==
    /\ InitBuf({0})
    /\ \E h \in {"NULL", "WILD"} : rb = [Fresh EXCEPT !.hnd = h, !.was = h]
    /\ \E h \in {"NULL", "WILD"} : rbc = [FreshC EXCEPT !.hnd = h, !.was = h]

NextLife ==
    \/ \E sz \in 0..MaxSize, fail \in Fails : rb_init(sz, fail)
    \/ rb_destroy
    \/ \E sz \in 0..MaxSize, fail \in Fails : ringbuffer_c_rb_init(sz, fail)
    \/ ringbuffer_c_rb_destroy
    \/ \E n \in 0..MaxReq : ringbuffer_c_rb_loose_data(n)
    \/ ringbuffer_c_rb_get_lost

SpecLife == InitLife /\ [][NextLife]_vars

\* A handle the operations of part_000 can be called on without undefined
\* behaviour: NULL, or a block with its primitives initialized.
Usable == rb.hnd = "NULL" \/ (Destroyable(rb) /\ rb.set)

\* One thread that creates and destroys the buffer of part_000, calls the
\* lost-counter operations on it, and calls the transfer operations on the
\* handle while it is NULL (never created, or destroyed).
InitUse == InitBuf({0}) /\ rb = Fresh /\ rbc = FreshC

NextUse ==
    \/ \E sz \in 0..MaxSize, fail \in Fails : rb_init(sz, fail)
    \/ rb_destroy
    \/ \E n \in 0..MaxReq :
          rb.hnd = "NULL" /\ nb + n <= MaxBytes /\ wb_call("w", n)
    \/ \E n \in 0..MaxReq :
          rb.hnd = "NULL" /\ nb + n <= MaxBytes /\ wn_call("w", n)
    \/ \E n \in 0..MaxReq :
          rb.hnd = "NULL" /\ nr + n <= MaxReads /\ rb_call("w", n)
    \/ \E n \in 0..MaxReq :
          rb.hnd = "NULL" /\ nr + n <= MaxReads /\ rn_call("w", n)
    \/ \E n \in 0..MaxReq :
          Usable /\ reported + n <= MaxLost /\ rb_loose("w", n)
    \/ Usable /\ rb_get_lost("w")
    \/ Usable /\ rb_clear_lost("w")
    \/ Return("w")

SpecUse == InitUse /\ [][NextUse]_vars

\* The single-threaded program of SpecSeq, which also calls the lost-counter
\* operations and rb_clear between its transfer calls.
LSteps(t) ==
    \/ \E n \in 0..MaxReq : reported + n <= MaxLost /\ rb_loose(t, n)
    \/ rb_get_lost(t)
    \/ rb_clear_lost(t)

NextLost ==
    \/ NextSeq
    \/ th["r"].pc = "idle" /\ LSteps("w")
    \/ th["w"].pc \in {"idle", "ret"} /\ th["r"].pc = "idle" /\ rb_clear

SpecLost == Init /\ [][NextLost]_vars

\* One thread in a single rb_read_block, and one thread that, while that call
\* is in progress, makes a single write call, blocking or not. Every thread
\* that can take a step eventually takes one; a spurious wakeup may happen
\* and need not.
ReaderOnce ==
    \/ \E n \in 1..MaxReq : nr = 0 /\ rb_call("r", n)
    \/ rb_lock("r")
    \/ rb_get("r")
    \/ rb_wait("r")
    \/ rb_unlock("r")
    \/ rb_signal("r")

WriterDuring ==
    \/ \E n \in 1..MaxReq :
          /\ nb = 0 /\ Reading("r")
          /\ (wb_call("w", n) \/ wn_call("w", n))
    \/ wb_lock("w")
    \/ wb_put("w")
    \/ wb_signal("w")
    \/ wb_wait("w")
    \/ wb_unlock("w")
    \/ wn_spin("w")
    \/ wn_put("w")
    \/ wn_signal("w")

NextWake ==
    \/ ReaderOnce
    \/ WriterDuring
    \/ \E t \in {"w", "r"} : SpuriousWakeup(t)
    \/ Return("w")

FairWake ==
    /\ InitXfer(1..MaxSize)
    /\ [][NextWake]_vars
    /\ WF_vars(ReaderOnce)
    /\ WF_vars(WriterDuring)

\* ================================================================== claims
IsPrefix(s, t) ==
    /\ Len(s) <= Len(t)
    /\ \A i \in 1..Len(s) : s[i] = t[i]

\* C2: with one writer and one reader using any mix of the four transfer
\* operations (no rb_clear), the bytes delivered to the reader are always a
\* prefix of the bytes accepted from the writer.
C2_DeliveredIsPrefix == IsPrefix(delivered, accepted)

\* C4 as stated: in every reachable state of a live buffer
\* 0 <= used <= capacity and 0 <= tail < capacity.
C4_UsedAndTailInRange ==
    /\ 0 <= used /\ used <= size
    /\ 0 <= tail /\ tail < size

\* C4 as amended: 0 <= used <= capacity always; 0 <= tail < capacity when the
\* capacity is at least 1, and tail = 0 when the capacity is 0.
C4_Amended ==
    /\ 0 <= used /\ used <= size
    /\ 0 <= tail
    /\ IF size = 0 THEN tail = 0 ELSE tail < size

\* The buffer is full and its contents wrap around the end of the arena.
C4_Witness == size >= 2 /\ tail > 0 /\ used = size

\* One step of rb_write_nonblock in thread t, as C5 describes the call.
C5_Step(t) ==
    LET a == th[t]
        b == th'[t]
    IN  /\ (a.pc = "idle" /\ b.op = "write_nonblock") =>
              /\ (b.pc = "ret") <=> (b.n > size)
              /\ (b.pc = "ret") => (b.ret = -E2BIG)
              /\ UNCHANGED <<used, tail, data>>
        /\ (a.pc = "wn_spin" /\ b.pc # "wn_spin") =>
              /\ (b.pc = "ret" /\ b.ret = -ENOMEM) <=> (size - used < a.n)
              /\ (b.pc = "ret" /\ b.ret # -ENOMEM) => (a.n = 0 /\ b.ret = 0)
              /\ UNCHANGED <<used, tail, data>>
        /\ (a.pc = "wn_put" /\ b.pc # "wn_put") =>
              /\ b.co = 0
              /\ used' = used + a.n
              /\ tail' = tail
              /\ Ring' = Ring \o a.buf
        /\ (a.pc = "wn_signal" /\ b.pc = "ret") => (b.ret = a.n)

\* C5: rb_write_nonblock of n bytes either appends all n bytes to the unread
\* bytes and returns n, or returns -E2BIG (exactly when n > capacity) or
\* -ENOMEM (exactly when capacity - used < n <= capacity) and leaves used,
\* tail and the arena unchanged; it never returns a partial count.
C5_WriteNonblockAllOrNothing == [][\A t \in Thr : C5_Step(t)]_vars

\* One step of rb_read_nonblock in thread t, as C6 describes the call.
C6_Step(t) ==
    LET a == th[t]
        b == th'[t]
    IN  /\ (a.pc = "idle" /\ b.op = "read_nonblock") =>
              /\ (b.pc = "ret") <=> (b.n > size)
              /\ (b.pc = "ret") => (b.ret = -E2BIG)
              /\ UNCHANGED <<used, tail, data>>
        /\ (a.pc = "rn_spin" /\ b.pc # "rn_spin") =>
              /\ (b.pc = "ret" /\ b.ret = -EAGAIN) <=> (used < a.n)
              /\ (b.pc = "ret" /\ b.ret # -EAGAIN) => (a.n = 0 /\ b.ret = 0)
              /\ UNCHANGED <<used, tail, data>>
        /\ (a.pc = "rn_signal" /\ b.pc = "ret") =>
              /\ b.ret = a.n
              /\ b.out = SubSeq(entry.ring, 1, a.n)
              /\ used = entry.used - a.n
              /\ tail = (entry.tail + a.n) % size
        /\ (a.op = "read_nonblock") => (b.pc \notin {"rb_wait", "rb_waiting"})

\* C6: rb_read_nonblock of count bytes either delivers exactly the count
\* oldest bytes of the arena in order, decreasing used by count and advancing
\* tail by count modulo the capacity, or returns -E2BIG (exactly when
\* count > capacity) or -EAGAIN (exactly when used < count <= capacity) and
\* leaves used and tail unchanged; it never blocks.
C6_ReadNonblockAllOrNothing == [][\A t \in Thr : C6_Step(t)]_vars

\* A non-blocking read of two bytes that wrapped around the end of the arena
\* has returned.
C6_Witness ==
    /\ th["r"].pc = "ret" /\ th["r"].op = "read_nonblock"
    /\ th["r"].ret = 2 /\ size = 2 /\ tail = 1

\* C7: rb_read_block with max_count >= 1 never waits on data-available once
\* it has delivered a byte, so it returns between 1 and max_count bytes; and
\* when the buffer held at least one byte as the call began and no other
\* thread changed the buffer during the call, it returns exactly
\* min(max_count, used) bytes without ever waiting.
C7_ShortRead ==
    \A t \in Thr :
        (th[t].op = "read_block" /\ th[t].n >= 1) =>
            /\ (th[t].pc \in {"rb_wait", "rb_waiting"}) => (th[t].cnt = 0)
            /\ (th[t].pc = "ret") =>
                  /\ 1 <= th[t].ret /\ th[t].ret <= th[t].n
                  /\ th[t].ret = Len(th[t].out)
                  /\ (th[t].u0 >= 1 /\ th[t].alone) =>
                        /\ th[t].ret = Min(th[t].n, th[t].u0)
                        /\ ~th[t].waited

\* An undisturbed rb_read_block returned fewer bytes than asked for, without
\* waiting.
C7_Witness ==
    /\ th["r"].pc = "ret" /\ th["r"].op = "read_block"
    /\ th["r"].alone /\ ~th["r"].waited
    /\ th["r"].u0 >= 1 /\ th["r"].ret = th["r"].u0 /\ th["r"].ret < th["r"].n

\* C1: with one thread in rb_write_block of N > capacity bytes and one thread
\* calling rb_read_block repeatedly, under fair scheduling the write call
\* eventually returns N and the reader eventually has received exactly the N
\* bytes, in order.
C1_NoByteLossUnderBackpressure ==
    <>(/\ th["w"].pc = "ret" /\ th["w"].op = "write_block"
       /\ th["w"].ret = th["w"].n
       /\ delivered = th["w"].buf)

\* C3: single-threaded, rb_write_block of a sequence B with len(B) <= capacity
\* on an empty buffer, followed at once by rb_read_block(len(B)), returns
\* len(B) bytes equal to B and leaves the buffer empty.
C3_RoundTrip ==
    (/\ th["w"].pc = "ret" /\ th["w"].op = "write_block"
     /\ th["w"].u0 = 0 /\ th["w"].n <= size
     /\ th["r"].pc = "ret" /\ th["r"].op = "read_block"
     /\ th["r"].n = th["w"].n)
    => (/\ th["w"].ret = th["w"].n
        /\ th["r"].ret = th["w"].n
        /\ th["r"].out = th["w"].buf
        /\ used = 0)

\* The bytes thread t copied in its call so far are the last bytes of the
\* stream h, and they are the first bytes of what the call has to copy.
OwnBytesLast(t, h, own) ==
    /\ th[t].cnt <= Len(h)
    /\ SubSeqFrom(h, Len(h) - th[t].cnt) = own

\* C8: while an rb_write_block call is between its first copy and its
\* return, no other rb_write_block copies, so the bytes of the call are
\* contiguous in the stream of accepted bytes; and the copies of two
\* rb_read_block calls are not interleaved either.
C8_BlockingCallsSerialized ==
    /\ \A t \in Thr :
          (th[t].op = "write_block" /\ th[t].pc \notin {"idle", "ret"}) =>
              OwnBytesLast(t, accepted, SubSeq(th[t].buf, 1, th[t].cnt))
    /\ \A t \in Thr :
          (th[t].op = "read_block"
           /\ th[t].pc \in {"rb_get", "rb_wait", "rb_waiting", "rb_unlock"}) =>
              OwnBytesLast(t, delivered, th[t].out)
    /\ \A t, u \in Thr :
          (t # u /\ th[t].op = th[u].op) =>
              ~(/\ th[t].pc \in {"wb_put", "wb_signal", "wb_wait",
                                 "wb_waiting", "wb_unlock", "rb_get",
                                 "rb_wait", "rb_waiting", "rb_unlock"}
                /\ th[u].pc \in {"wb_put", "wb_signal", "wb_wait",
                                 "wb_waiting", "wb_unlock", "rb_get",
                                 "rb_wait", "rb_waiting", "rb_unlock"})

\* One writer waits for space in the middle of its call while the other
\* writer waits for wr_mutex.
C8_Witness ==
    /\ th["w"].pc = "wb_waiting" /\ th["w"].cnt > 0 /\ th["w2"].pc = "wb_lock"

\* One reader has copied a byte and goes on copying while the other reader
\* waits for rd_mutex.
C8_WitnessReaders ==
    \E t, u \in Readers :
        /\ th[t].pc = "rb_get" /\ th[t].cnt > 0 /\ th[u].pc = "rb_lock"

\* C9: creating a buffer on a fresh handle succeeds, and destroying that live
\* handle right afterwards returns 0 and leaves the handle uninitialized
\* (ringbuffer.c, as the self test asserts it).
C9_CreateThenDestroy ==
    /\ (rbc.op = "init" /\ rbc.was = "NULL" /\ rbc.fail = 0)
           => (rbc.ret = 0 /\ rbc.hnd = "BLOCK")
    /\ (rbc.op = "destroy" /\ rbc.was = "BLOCK")
           => (rbc.ret = 0 /\ rbc.hnd = "NULL")

\* A destroy call on a handle h that is NULL, destroyed before or never
\* created, leaving it as h2: it returns EFAULT, and no primitive and no
\* block is touched.
C10_Step(h, h2) ==
    (h2 # h /\ h2.op = "destroy" /\ h.hnd = "NULL")
        => /\ h2.ret = EFAULT
           /\ h2.hnd = "NULL"
           /\ h2.mem = h.mem /\ h2.prim = h.prim
           /\ h2.ub = h.ub /\ crashed' = crashed

\* C10: destroy on a handle that is not live, after a successful destroy or
\* never created, returns NotInitialized and releases nothing, in both
\* implementations of rb_destroy.
C10_DestroyGuard == [][C10_Step(rb, rb') /\ C10_Step(rbc, rbc')]_vars

\* The same for rb_destroy of part_000 alone.
C10_DestroyGuardTail == [][C10_Step(rb, rb')]_vars


\* An rb_init call on a live handle h, leaving it as h2: it returns EFAULT
\* and the handle, the block and the primitives are as before; no block is
\* lost.
C11_Step(h, h2) ==
    (h2 # h /\ h2.op = "init" /\ h.hnd = "BLOCK" /\ h.set)
        => /\ h2.ret = EFAULT
           /\ h2.hnd = "BLOCK" /\ h2.set
           /\ h2.mem = h.mem /\ h2.prim = h.prim
           /\ h2.leaks = h.leaks

\* C11: rb_init on a live handle, without an rb_destroy in between, fails
\* with AlreadyInitialized and leaves the buffer (arena, used, tail, lost,
\* primitives) untouched, in both implementations of rb_init; no second arena
\* is allocated over the live one.
C11_InitGuard ==
    [][/\ C11_Step(rb, rb')
       /\ (rb' # rb /\ rb'.op = "init" /\ rb.hnd = "BLOCK" /\ rb.set)
              => UNCHANGED <<size, used, tail, lost, data>>
       /\ C11_Step(rbc, rbc')]_vars

\* The same for rb_init of ringbuffer.c alone.
C11_InitGuardHead == [][C11_Step(rbc, rbc')]_vars

\* The handle h after an rb_init on a NULL handle that was made to fail:
\* the call reports the failure, no primitive is left initialized, no block
\* is left allocated and the handle is NULL.
C12_After(h) ==
    (h.op = "init" /\ h.fail > 0 /\ h.was = "NULL")
        => /\ h.ret # 0
           /\ \A k \in 1..NPrim : h.prim[k] # "init"
           /\ h.mem # "alloc"
           /\ h.hnd = "NULL"

\* C12: when rb_init fails at malloc or at one of the seven primitives, on
\* return every primitive made so far is destroyed, the arena is freed and
\* the handle reads as not initialized, in both implementations of rb_init.
C12_FailedInitReleasesAll == C12_After(rb) /\ C12_After(rbc)

\* The same for rb_init of ringbuffer.c alone.
C12_FailedInitHead == C12_After(rbc)

\* The operations that move bytes.
Transfers == {"write_block", "write_nonblock", "read_block", "read_nonblock"}

\* A call thread t begins on a NULL handle: it ends in the same step and
\* reports -EFAULT, the error result no byte count and no counter value can
\* be mistaken for, and neither the buffer nor a lock nor the handle changes.
C13_Step(t) ==
    (th[t].pc = "idle" /\ th'[t].pc # "idle" /\ rb.hnd = "NULL")
        => /\ th'[t].pc = "ret"
           /\ th'[t].ret = -EFAULT
           /\ UNCHANGED <<size, used, tail, lost, data, spinlock, wr_mutex,
                          rd_mutex, rb>>

\* C13: every transfer operation and every lost-counter operation called on
\* a handle that was never created or is destroyed reports NotInitialized as
\* an error outcome, not as a count, does not block and changes no state.
C13_DeadHandleReportsFault == [][\A t \in Thr : C13_Step(t)]_vars

\* The same for the four transfer operations alone.
C13_DeadHandleTransfers ==
    [][\A t \in Thr : (th'[t].op \in Transfers) => C13_Step(t)]_vars

\* A lost-counter call of thread t on a live buffer: rb_loose raises lost by
\* its argument and returns the new total, rb_get_lost returns lost and
\* leaves it, rb_clear_lost returns lost and resets it.
C14_Step(t) ==
    (th[t].pc = "idle" /\ th'[t].pc = "ret" /\ Live)
        => /\ (th'[t].op = "loose")
                  => (lost' = lost + th'[t].n /\ th'[t].ret = lost + th'[t].n)
           /\ (th'[t].op = "get_lost")
                  => (lost' = lost /\ th'[t].ret = lost)
           /\ (th'[t].op = "clear_lost")
                  => (lost' = 0 /\ th'[t].ret = lost)

\* C14: rb_loose(n) sets lost to L + n and returns it, rb_get_lost returns
\* the total without changing it, rb_clear_lost returns the total and sets
\* lost to 0; hence lost is always the sum of the amounts reported since the
\* creation or the last reset.
C14_LostAccounting ==
    [][(\A t \in Thr : C14_Step(t)) /\ lost' = reported']_vars

\* An rb_loose of a positive amount has returned, on a total that was
\* positive before.
C14_Witness ==
    /\ th["w"].pc = "ret" /\ th["w"].op = "loose"
    /\ th["w"].n > 0 /\ th["w"].ret > th["w"].n
    /\ lost = th["w"].ret

\* C15: rb_loose_data(rb, n) of ringbuffer.c on a live buffer adds n to the
\* lost total and returns the new total, the value a following rb_get_lost
\* returns.
C15_LooseDataAddsToLost ==
    [][(rbc'.op = "loose_data" /\ rbc' # rbc /\ rbc.hnd = "BLOCK")
          => /\ rbc'.lost = rbc.lost + rbc'.arg
             /\ rbc'.ret = rbc'.lost]_vars

\* Thread t makes a call of one of the given operations that begins and
\* ends in this step.
CallOf(t, ops) ==
    th[t].pc = "idle" /\ th'[t].pc = "ret" /\ th'[t].op \in ops

\* C16: the lost counter is independent of the buffer contents: rb_loose,
\* rb_get_lost and rb_clear_lost leave used, tail, the arena and the capacity
\* unchanged, and lost changes only in a step of rb_loose, rb_clear_lost or
\* rb_clear, so that no step of a transfer operation, successful, failing or
\* blocked, changes it.
C16_LostIndependent ==
    [][/\ (\E t \in Thr : CallOf(t, {"loose", "get_lost", "clear_lost"}))
              => UNCHANGED <<used, tail, data, size>>
       /\ (lost' # lost)
              => \/ \E t \in Thr : CallOf(t, {"loose", "clear_lost"})
                 \/ rb_clear]_vars

\* A positive amount was reported on a buffer that held bytes, and a read
\* that delivered bytes ran afterwards; the total is still the one reported.
C16_Witness ==
    /\ th["w"].pc = "ret" /\ th["w"].op = "loose" /\ th["w"].n > 0
    /\ th["r"].pc = "ret" /\ th["r"].op \in Transfers /\ th["r"].ret > 0
    /\ lost = th["w"].ret /\ used > 0 /\ tail > 0

\* C17: on a buffer of capacity 0 (rb_init accepts it) every transfer call
\* asking for at least one byte reports at once InsufficientSpace (-ENOMEM),
\* InsufficientData (-EAGAIN) or RequestTooLarge (-E2BIG): no such call is
\* ever past its entry checks, where it would wait or divide by the capacity,
\* and the process has not trapped.
C17_ZeroCapacity ==
    (size = 0)
        => /\ ~crashed
           /\ \A t \in Thr :
                 (th[t].op \in Transfers /\ th[t].n >= 1)
                     => /\ th[t].pc = "ret"
                        /\ th[t].ret \in {-ENOMEM, -EAGAIN, -E2BIG}

\* On a buffer of capacity 0 no rb_write_block asking for at least one byte
\* reaches the modulo of _put, and the process has not trapped.
C17_NoDivisionByZero ==
    (size = 0)
        => /\ ~crashed
           /\ \A t \in Thr : ~(th[t].pc = "wb_put" /\ th[t].co >= 1)

\* C18: rb_write_nonblock and rb_read_nonblock touch only the spinlock: a
\* thread inside one of them locks no condition lock and neither wr_mutex
\* nor rd_mutex, so it never asks for another lock while it holds the
\* spinlock.
C18_NonblockOnlyShortLock ==
    [][\A t \in Thr :
          /\ TakesCondLock(t)
                => (th[t].op \notin {"write_nonblock", "read_nonblock"}
                    /\ spinlock # t)
          /\ (th[t].op \in {"write_nonblock", "read_nonblock"})
                => (wr_mutex' # t /\ rd_mutex' # t)]_vars

\* C19: rb_clear on a live buffer sets used, tail and lost to 0 in one step
\* under the spinlock and leaves the arena and the capacity as they are;
\* right afterwards rb_get_used is 0 and rb_get_free is the capacity.
C19_ClearResets ==
    [][rb_clear
          => /\ used' = 0 /\ tail' = 0 /\ lost' = 0
             /\ data' = data /\ size' = size
             /\ spinlock = NoThread /\ spinlock' = NoThread
             /\ rb_get_used' = 0 /\ rb_get_free' = size]_vars

\* rb_clear has run on a buffer that held written bytes and a positive lost
\* total: the arena still has the bytes, and the history of accepted bytes,
\* which only rb_clear empties, is empty.
C19_Witness ==
    /\ th["w"].pc = "ret" /\ th["w"].op = "loose" /\ th["w"].ret > 0
    /\ lost = 0 /\ used = 0 /\ tail = 0
    /\ nb > 0 /\ accepted = <<>>
    /\ \E i \in DOMAIN data : data[i] # 0
    /\ rb_get_free = size

\* C20: every byte a write stores goes to an arena index in 0 .. size-1:
\* _put splits a copy that would run over the end of the arena, and no
\* memcpy of _put ever touches an index >= size.
C20_PutStaysInArena == ~overrun

\* C21: no lost wake-up on the reader side: when a write puts at least one
\* byte into the buffer while an rb_read_block is in progress, that
\* rb_read_block eventually returns; the reader is not left in _cond_wait
\* for ever with bytes in the buffer.
C21_ReaderWakes ==
    (Reading("r") /\ accepted # <<>>) ~> (th["r"].pc = "ret")

\* C22: with one thread in rb_write_block and one in rb_read_block on a
\* buffer of capacity 1 or more, no reachable state has the writer in
\* _cond_wait with bytes still to write while the reader is in _cond_wait
\* too, both blocked with nobody left to signal.
C22_NoDoubleWait ==
    ~(/\ th["w"].pc = "wb_waiting" /\ th["w"].co > 0
      /\ th["r"].pc = "rb_waiting")

\* The bytes thread t has moved in a call of the given operations that has
\* not returned yet.
Pending(t, ops) ==
    IF th[t].op \in ops /\ th[t].pc \notin {"idle", "ret"}
    THEN th[t].cnt ELSE 0

\* The total of the byte counts the write calls have returned, and the same
\* for the read calls: the bytes moved less those of the calls in progress.
ReturnedByWrites ==
    Len(accepted) - (Pending("w", {"write_block", "write_nonblock"})
                     + Pending("w2", {"write_block", "write_nonblock"}))

ReturnedByReads ==
    Len(delivered) - (Pending("r", {"read_block", "read_nonblock"})
                      + Pending("r2", {"read_block", "read_nonblock"}))

\* C23 as stated: in every reachable state used is the total of the byte
\* counts returned by the write operations minus the total of the byte
\* counts returned by the read operations.
C23_ReturnedCountsBalance == used = ReturnedByWrites - ReturnedByReads

\* C23: byte conservation: used is the number of bytes _put has stored minus
\* the number of bytes _get has copied out since rb_init or the last
\* rb_clear, the bytes of calls still in progress included; every call
\* returns the number of bytes it moved; and every step of _get lowers used
\* by the number of bytes it copied out and moves tail forward by that number
\* modulo the capacity.
C23_ByteConservation ==
    [][/\ used' = Len(accepted') - Len(delivered')
       /\ \A t \in Thr :
             (rb_get(t) \/ rn_get(t))
                 => LET k == Len(delivered') - Len(delivered)
                    IN  /\ used' = used - k
                        /\ th'[t].cnt = th[t].cnt + k
                        /\ tail' = IF k = 0 THEN tail ELSE (tail + k) % size
       /\ \A t \in Thr :
             (th[t].pc \notin {"idle", "ret"} /\ th'[t].pc = "ret"
                  /\ th'[t].ret >= 0)
                 => th'[t].ret = th'[t].cnt]_vars

\* Reads have taken bytes out, one of them up to the end of the arena so
\* that tail is back at 0 after having moved, and bytes are left.
C23_Witness ==
    /\ size >= 2 /\ used > 0
    /\ Len(delivered) >= size /\ tail = 0
    /\ \E t \in Thr : /\ th[t].pc = "ret" /\ th[t].ret > 0
                      /\ th[t].op \in {"read_block", "read_nonblock"}

====
